---- MODULE Spec2Model ----
(***************************************************************************)
(* Model of code-map: ProjectAnalyzer.analyze_projects,                    *)
(* DependencyMapper.map_dependencies_and_methods and                       *)
(* DiagramGenerator.generate_dot_file, run in the order of main().         *)
(*                                                                         *)
(* A string is the sequence of its lexical tokens: every maximal run of    *)
(* letters and digits is one token, every other character is a token of    *)
(* its own ("http://x" is <<"http", ":", "/", "/", "x">>).  Two strings    *)
(* are equal exactly when their token sequences are.  A file path is the   *)
(* sequence of its os.sep-separated segments, each segment a string.       *)
(* The text of a file is a sequence of whitespace-separated fragments,     *)
(* each a record [kind, val]:                                              *)
(*   import   import "val" / require "val"                                 *)
(*   include  <!-- #include file="val" -->                                 *)
(*   compile  <Compile Include="val"                                       *)
(*   projref  <ProjectReference Include="val"                              *)
(*   func     function val(                                                *)
(*   text     val, any other text without whitespace or quotes             *)
(***************************************************************************)
EXTENDS Integers, Sequences, FiniteSets, TLC

VARIABLES
    root,               \* config["root_folder_path"], split at os.sep
    fs,                 \* the directories below root, in os.listdir order
    pc,                 \* position in main()
    projects,           \* result of analyze_projects
    pi, fi,             \* loop positions: project, file within the project
    dependencies,       \* per-project list being built
    methods,            \* per-project dict: method key -> list of files
    dependency_map,     \* project name -> list of dependency strings
    method_usage_map,   \* method key -> list of files
    localhost_map,      \* port -> project name
    domain_count,       \* Counter: root domain -> occurrences
    ti,                 \* translation loop position
    dot_projects,       \* graph of generate_dot_file(include_methods=False)
    dot_all             \* graph of generate_dot_file(include_methods=True)

vars == <<root, fs, pc, projects, pi, fi, dependencies, methods,
          dependency_map, method_usage_map, localhost_map, domain_count,
          ti, dot_projects, dot_all>>

----------------------------------------------------------------------------
(* Bounds of the model *)

MaxFiles == 2           \* files below one project directory

----------------------------------------------------------------------------
(* Strings *)

Range(s) == {s[i] : i \in 1..Len(s)}

Max(S) == CHOOSE x \in S : \A y \in S : y <= x

Min(S) == CHOOSE x \in S : \A y \in S : x <= y

RECURSIVE Concat(_)
Concat(ss) == IF ss = <<>> THEN <<>> ELSE Head(ss) \o Concat(Tail(ss))

SetToSeq(S) == CHOOSE s \in [1..Cardinality(S) -> S] : Range(s) = S

StartsWith(s, pre) == Len(s) >= Len(pre) /\ SubSeq(s, 1, Len(pre)) = pre

EndsWith(s, suf) ==
    Len(s) >= Len(suf) /\ SubSeq(s, Len(s) - Len(suf) + 1, Len(s)) = suf

\* Python's `sub in s`
Contains(s, sub) ==
    \E i \in 1..(Len(s) - Len(sub) + 1) : SubSeq(s, i, i + Len(sub) - 1) = sub

Punctuation == {":", "/", ".", "\\", "_", "?", "#"}

DigitRuns == {"8080", "3000", "8443"}

IsDigits(t) == t \in DigitRuns

IsAlnum(t) == t \notin Punctuation

\* \w: letters, digits and the underscore
IsWordToken(t) == IsAlnum(t) \/ t = "_"

EmptyDict == <<>>

----------------------------------------------------------------------------
(* DependencyMapper: the patterns of __init__ *)

\* localhost_pattern, r"localhost:(\d+)", matching at token i of s
LocalhostAt(s, i) ==
    /\ i + 2 <= Len(s)
    /\ s[i] = "localhost"
    /\ s[i + 1] = ":"
    /\ IsDigits(s[i + 2])

\* localhost_pattern.findall(s): the captured ports, left to right
LocalhostFindallStr(s) ==
    LET idx == SelectSeq([i \in 1..Len(s) |-> i], LAMBDA i : LocalhostAt(s, i))
    IN  [k \in 1..Len(idx) |-> s[idx[k] + 2]]

\* localhost_pattern.findall(content)
LocalhostFindall(content) ==
    Concat([j \in 1..Len(content) |-> LocalhostFindallStr(content[j].val)])

\* r'(https?://[^\s\'"]+)' matching at token i of s: scheme, "://" and at
\* least one more character
UrlAt(s, i) ==
    /\ i + 4 <= Len(s)
    /\ s[i] \in {"http", "https"}
    /\ s[i + 1] = ":"
    /\ s[i + 2] = "/"
    /\ s[i + 3] = "/"

\* The URL pattern on one fragment: the match runs to the end of the
\* fragment, which has no whitespace and no quote inside
UrlFindallStr(s) ==
    LET starts == {i \in 1..Len(s) : UrlAt(s, i)}
    IN  IF starts = {} THEN <<>> ELSE <<SubSeq(s, Min(starts), Len(s))>>

PatternKinds == <<"import", "include", "url", "compile", "projref">>

\* dependency_patterns[k].findall on one fragment, reduced to the captured
\* dependency (match[1] of the two-group import pattern, the match itself
\* of the others)
FragmentMatches(k, frag) ==
    IF PatternKinds[k] = "url"
    THEN UrlFindallStr(frag.val)
    ELSE IF frag.kind = PatternKinds[k] /\ frag.val # <<>>
         THEN <<frag.val>>
         ELSE <<>>

PatternFindall(k, content) ==
    Concat([j \in 1..Len(content) |-> FragmentMatches(k, content[j])])

\* for pattern in self.dependency_patterns: for match in matches: ...
AllMatches(content) ==
    Concat([k \in 1..Len(PatternKinds) |-> PatternFindall(k, content)])

\* method_pattern, r"function\s+(\w+)\s*\(": the declared names
MethodFindall(content) ==
    Concat([j \in 1..Len(content) |->
              IF content[j].kind = "func" THEN <<content[j].val>> ELSE <<>>])

supported_extensions == {<<".", "vb">>, <<".", "vue">>, <<".", "js">>}

\* os.path.basename(file)
Basename(file) == file[Len(file)]

\* IsSupported with the analyzer's list of extensions in place of
\* supported_extensions
IsSupportedAsCollected(file) ==
    \E e \in {<<".", "vbproj">>, <<".", "js">>, <<".", "resx">>,
              <<".", "json">>, <<".", "sln">>, <<".", "asax">>,
              <<".", "aspx">>, <<".", "vb">>, <<".", "vue">>,
              <<".", "html">>} : EndsWith(Basename(file), e)

\* file.endswith(self.supported_extensions)
IsSupported(file) ==
    \E e \in supported_extensions : EndsWith(Basename(file), e)

NpmjsOrg == <<"npmjs", ".", "org">>

\* IsNoise with the npmjs.org test left out
IsNoiseNever(dependency) == FALSE

\* "npmjs.org" in dependency
IsNoise(dependency) == Contains(dependency, NpmjsOrg)

----------------------------------------------------------------------------
(* DependencyMapper.extract_domain and get_root_domain *)

\* urlparse(url).netloc: after an optional scheme, the text between a
\* leading "//" and the next "/", "?" or "#"
extract_domain(url) ==
    LET hasScheme == /\ Len(url) >= 2
                     /\ IsAlnum(url[1]) /\ ~IsDigits(url[1])
                     /\ url[2] = ":"
        rest == IF hasScheme THEN SubSeq(url, 3, Len(url)) ELSE url
        body == SubSeq(rest, 3, Len(rest))
        stops == {i \in 1..Len(body) : body[i] \in {"/", "?", "#"}}
    IN  IF ~StartsWith(rest, <<"/", "/">>) THEN <<>>
        ELSE IF stops = {} THEN body
        ELSE SubSeq(body, 1, Min(stops) - 1)

\* parts = domain.split("."); ".".join(parts[-2:]) when len(parts) >= 2
get_root_domain(domain) ==
    LET dots == {i \in 1..Len(domain) : domain[i] = "."}
    IN  IF Cardinality(dots) < 2 THEN domain
        ELSE SubSeq(domain, Max(dots \ {Max(dots)}) + 1, Len(domain))

\* domain_count[key] += 1 on a Counter
Increment(counter, key) ==
    IF key \in DOMAIN counter
    THEN [counter EXCEPT ![key] = @ + 1]
    ELSE counter @@ (key :> 1)

\* dict lookup with the Counter's default
CountOf(counter, key) == IF key \in DOMAIN counter THEN counter[key] ELSE 0

----------------------------------------------------------------------------
(* The file system and ProjectAnalyzer.analyze_projects *)

\* os.path.join(root, file) below the project directory dirname
PathOf(dirname, f) == root \o <<dirname>> \o f.sub \o <<f.base>>

analyzer_extensions ==
    {<<".", "vbproj">>, <<".", "js">>, <<".", "resx">>, <<".", "json">>,
     <<".", "sln">>, <<".", "asax">>, <<".", "aspx">>, <<".", "vb">>,
     <<".", "vue">>, <<".", "html">>}

\* file.endswith((".vbproj", ".js", ...))
IsCollected(base) == \E e \in analyzer_extensions : EndsWith(base, e)

\* One project per directory of the root, its files in os.walk order
analyze_projects ==
    [i \in 1..Len(fs) |->
        LET kept == SelectSeq(fs[i].files, LAMBDA f : IsCollected(f.base))
        IN  [name  |-> fs[i].name,
             files |-> [j \in 1..Len(kept) |-> PathOf(fs[i].name, kept[j])]]]

\* The files on disk, each with the directory it lies below
DiskFiles ==
    UNION {{<<fs[i].name, fs[i].files[j]>> : j \in 1..Len(fs[i].files)} :
           i \in 1..Len(fs)}

\* open(file, "r", encoding="utf-8") and f.read(): the file at that path
Open(file) ==
    (CHOOSE e \in DiskFiles : PathOf(e[1], e[2]) = file)[2]

----------------------------------------------------------------------------
(* DependencyMapper.map_dependencies_and_methods: the body of the file loop *)

\* RegisterPorts keeping the first project that declared a port
RegisterPortsFirstWins(lm, ports, name) ==
    IF ports = <<>> THEN lm
    ELSE [p \in DOMAIN lm \cup Range(ports) |->
            IF p \in DOMAIN lm THEN lm[p] ELSE name]

\* for port in localhost_matches: localhost_map[port] = project["name"]
RegisterPorts(lm, ports, name) ==
    IF ports = <<>> THEN lm
    ELSE [p \in DOMAIN lm \cup Range(ports) |->
            IF p \in Range(ports) THEN name ELSE lm[p]]

\* The dependency loop: skip npmjs.org references, append the others and
\* count the root domain of those with a non-empty netloc
RECURSIVE CollectDependencies(_, _, _)
CollectDependencies(deps, dc, matches) ==
    IF matches = <<>> THEN [dependencies |-> deps, domain_count |-> dc]
    ELSE LET dependency == Head(matches)
             domain == extract_domain(dependency)
         IN  IF IsNoise(dependency)
             THEN CollectDependencies(deps, dc, Tail(matches))
             ELSE CollectDependencies(
                      Append(deps, dependency),
                      IF domain # <<>>
                      THEN Increment(dc, get_root_domain(domain))
                      ELSE dc,
                      Tail(matches))

\* f"{method}_{os.path.basename(file)}"
MethodKey(method, file) == method \o <<"_">> \o Basename(file)

\* d[key].append(x), creating the list when the key is new
AppendTo(d, key, x) ==
    IF key \in DOMAIN d
    THEN [d EXCEPT ![key] = Append(@, x)]
    ELSE d @@ (key :> <<x>>)

\* for method in method_matches: methods[method_name].append(file)
RECURSIVE DefineMethods(_, _, _)
DefineMethods(ms, names, file) ==
    IF names = <<>> THEN ms
    ELSE DefineMethods(AppendTo(ms, MethodKey(Head(names), file), file),
                       Tail(names), file)

\* method_name.split("_")[0]
SplitFirst(method_name) ==
    LET us == {i \in 1..Len(method_name) : method_name[i] = "_"}
    IN  IF us = {} THEN method_name ELSE SubSeq(method_name, 1, Min(us) - 1)

\* The maximal runs of word characters of a string
WordRuns(s) ==
    {SubSeq(s, ij[1], ij[2]) : ij \in
        {ij \in (1..Len(s)) \X (1..Len(s)) :
            /\ ij[1] <= ij[2]
            /\ \A k \in ij[1]..ij[2] : IsWordToken(s[k])
            /\ (ij[1] = 1 \/ ~IsWordToken(s[ij[1] - 1]))
            /\ (ij[2] = Len(s) \/ ~IsWordToken(s[ij[2] + 1]))}}

\* The words of the fixed text of a fragment
Keywords(kind) ==
    CASE kind = "import"  -> {<<"import">>}
      [] kind = "include" -> {<<"include">>, <<"file">>}
      [] kind = "compile" -> {<<"Compile">>, <<"Include">>}
      [] kind = "projref" -> {<<"ProjectReference">>, <<"Include">>}
      [] kind = "func"    -> {<<"function">>}
      [] OTHER            -> {}

ContentWords(content) ==
    UNION {Keywords(content[j].kind) \cup WordRuns(content[j].val) :
           j \in 1..Len(content)}

\* re.compile(r"\b" + re.escape(method) + r"\b").search(content): a whole
\* word equal to method; with an empty method, any word boundary
UsageSearch(method, content) ==
    IF method = <<>> THEN ContentWords(content) # {}
    ELSE method \in ContentWords(content)

\* for method_name in methods: ... method_usage_map[method_name].append(file)
RecordUsages(mum, ms, content, file) ==
    LET hit == {k \in DOMAIN ms : UsageSearch(SplitFirst(k), content)}
    IN  IF hit = {} THEN mum
        ELSE [k \in DOMAIN mum \cup hit |->
                IF k \notin hit THEN mum[k]
                ELSE IF k \in DOMAIN mum THEN Append(mum[k], file)
                ELSE <<file>>]

\* The accumulators of the scan
Accumulators(deps, ms, mum, lm, dc) ==
    [dependencies |-> deps, methods |-> ms, method_usage_map |-> mum,
     localhost_map |-> lm, domain_count |-> dc]

\* ScanContent leaving the port table as it is
ScanContentWithoutPorts(st, name, file, content) ==
    LET collected == CollectDependencies(st.dependencies, st.domain_count,
                                         AllMatches(content))
        ms == DefineMethods(st.methods, MethodFindall(content), file)
    IN  Accumulators(
            collected.dependencies,
            ms,
            RecordUsages(st.method_usage_map, ms, content, file),
            st.localhost_map,
            collected.domain_count)

\* The `with open(...)` block on the content read
ScanContent(st, name, file, content) ==
    LET collected == CollectDependencies(st.dependencies, st.domain_count,
                                         AllMatches(content))
        ms == DefineMethods(st.methods, MethodFindall(content), file)
    IN  Accumulators(
            collected.dependencies,
            ms,
            RecordUsages(st.method_usage_map, ms, content, file),
            RegisterPorts(st.localhost_map, LocalhostFindall(content), name),
            collected.domain_count)

\* ScanFile going on with the text of a file whose read failed
ScanFileIgnoresFailure(st, name, file) ==
    IF ~IsSupported(file) THEN st
    ELSE ScanContent(st, name, file, Open(file).content)

\* One iteration of `for file in project["files"]`: unsupported files are
\* skipped, a failing open/read is logged and the loop goes on
ScanFile(st, name, file) ==
    IF ~IsSupported(file) THEN st
    ELSE IF ~Open(file).readable THEN st
    ELSE ScanContent(st, name, file, Open(file).content)

\* After the file loop: method_usage_map[method_name].extend(files)
ExtendUsages(mum, ms) ==
    IF DOMAIN ms = {} THEN mum
    ELSE [k \in DOMAIN mum \cup DOMAIN ms |->
            IF k \notin DOMAIN ms THEN mum[k]
            ELSE IF k \in DOMAIN mum THEN mum[k] \o ms[k]
            ELSE ms[k]]

\* Every order of the elements of a set
Orderings(S) ==
    {s \in [1..Cardinality(S) -> S] : Range(s) = S}

\* Deduplicated keeping the list as it is
NotDeduplicated(files) == {files}

\* The lists list(set(files)) can be: the distinct files in any order
Deduplicated(files) == Orderings(Range(files))

\* One dependency of the translation loop
Translate(dependency, lm) ==
    IF Contains(dependency, <<"localhost">>)
    THEN LET match == LocalhostFindallStr(dependency)
         IN  IF match # <<>>
             THEN IF match[1] \in DOMAIN lm THEN lm[match[1]] ELSE dependency
             ELSE dependency
    ELSE dependency

TranslateAll(deps, lm) == [i \in 1..Len(deps) |-> Translate(deps[i], lm)]

----------------------------------------------------------------------------
(* DiagramGenerator *)

\* extract_project_name taking the parent directory, parts[-2]
extract_parent_name(file_path) ==
    IF Len(file_path) >= 2 THEN file_path[Len(file_path) - 1]
    ELSE <<"unknown">>

\* parts = file_path.split(os.sep); parts[-3], "unknown" on IndexError
extract_project_name(file_path) ==
    IF Len(file_path) >= 3 THEN file_path[Len(file_path) - 2]
    ELSE <<"unknown">>

\* dependency.replace(":", "\\:")
EscapeColons(s) ==
    Concat([i \in 1..Len(s) |->
              IF s[i] = ":" THEN <<"\\", ":">> ELSE <<s[i]>>])

\* The head dot.edge is called with for a dependency
FormatDependency(dependency) ==
    IF \/ StartsWith(dependency, <<"http", ":", "/", "/">>)
       \/ StartsWith(dependency, <<"https", ":", "/", "/">>)
    THEN EscapeColons(dependency)
    ELSE dependency

\* f"method_{method}"
MethodNode(method) == <<"method", "_">> \o method

\* The key an edge is looked up and recorded under in added_edges
EdgeKey(tail, target) == <<tail, target>>

\* The candidate edges in the order the loops visit them: edge is the pair
\* tested against added_edges, tail/head/label what dot.edge is called with
DependencyCandidates(order, dm) ==
    Concat([p \in 1..Len(order) |->
        [i \in 1..Len(dm[order[p]]) |->
            [edge  |-> EdgeKey(order[p], dm[order[p]][i]),
             tail  |-> order[p],
             head  |-> FormatDependency(dm[order[p]][i]),
             label |-> "uses"]]])

MethodCandidates(sm) ==
    LET keys == SetToSeq(DOMAIN sm)
    IN  Concat([k \in 1..Len(keys) |->
            [i \in 1..Len(sm[keys[k]]) |->
                [edge  |-> EdgeKey(extract_project_name(sm[keys[k]][i]),
                                   MethodNode(keys[k])),
                 tail  |-> extract_project_name(sm[keys[k]][i]),
                 head  |-> MethodNode(keys[k]),
                 label |-> "has method"]]])

\* if edge not in added_edges: dot.edge(...); added_edges.add(edge)
RECURSIVE AddEdges(_, _, _)
AddEdges(cands, edges, added_edges) ==
    IF cands = <<>> THEN edges
    ELSE LET c == Head(cands)
         IN  IF c.edge \in added_edges
             THEN AddEdges(Tail(cands), edges, added_edges)
             ELSE AddEdges(Tail(cands),
                           Append(edges, [tail |-> c.tail, head |-> c.head,
                                          label |-> c.label]),
                           added_edges \cup {c.edge})

\* The graph saved by generate_dot_file; order is the key order of
\* dependency_map
generate_dot_file(order, dm, sm, include_methods) ==
    [nodes |->
        {[name |-> order[p], shape |-> "ellipse"] : p \in 1..Len(order)} \cup
        (IF include_methods
         THEN {[name |-> MethodNode(k), shape |-> "box"] : k \in DOMAIN sm}
         ELSE {}),
     edges |->
        AddEdges(DependencyCandidates(order, dm) \o
                 (IF include_methods THEN MethodCandidates(sm) ELSE <<>>),
                 <<>>, {})]

NoGraph == [nodes |-> {}, edges |-> <<>>]

----------------------------------------------------------------------------
(* main(): the steps *)

ProjectNames == [i \in 1..Len(projects) |-> projects[i].name]

AnalyzeProjects ==
    /\ pc = "analyze"
    /\ projects' = analyze_projects
    /\ pc' = "map"
    /\ UNCHANGED <<root, fs, pi, fi, dependencies, methods, dependency_map,
                   method_usage_map, localhost_map, domain_count, ti,
                   dot_projects, dot_all>>

\* One iteration of the file loop of the current project
ProcessFile ==
    /\ pc = "map"
    /\ pi <= Len(projects)
    /\ fi <= Len(projects[pi].files)
    /\ \E st \in {ScanFile(Accumulators(dependencies, methods,
                                        method_usage_map, localhost_map,
                                        domain_count),
                           projects[pi].name, projects[pi].files[fi])} :
           /\ dependencies' = st.dependencies
           /\ methods' = st.methods
           /\ method_usage_map' = st.method_usage_map
           /\ localhost_map' = st.localhost_map
           /\ domain_count' = st.domain_count
    /\ fi' = fi + 1
    /\ UNCHANGED <<root, fs, pc, projects, pi, dependency_map, ti,
                   dot_projects, dot_all>>

\* After the last file of a project; the next project starts with empty
\* dependencies and methods
EndProject ==
    /\ pc = "map"
    /\ pi <= Len(projects)
    /\ fi > Len(projects[pi].files)
    /\ dependency_map' = [n \in DOMAIN dependency_map \cup {projects[pi].name}
                            |-> IF n = projects[pi].name THEN dependencies
                                ELSE dependency_map[n]]
    /\ method_usage_map' = ExtendUsages(method_usage_map, methods)
    /\ dependencies' = <<>>
    /\ methods' = EmptyDict
    /\ pi' = pi + 1
    /\ fi' = 1
    /\ UNCHANGED <<root, fs, pc, projects, localhost_map, domain_count, ti,
                   dot_projects, dot_all>>

\* method_usage_map[method_name] = list(set(method_usage_map[method_name]))
Deduplicate ==
    /\ pc = "map"
    /\ pi > Len(projects)
    /\ method_usage_map' \in
          {m \in [DOMAIN method_usage_map ->
                    UNION {Deduplicated(method_usage_map[k]) :
                           k \in DOMAIN method_usage_map}] :
              \A k \in DOMAIN method_usage_map :
                  m[k] \in Deduplicated(method_usage_map[k])}
    /\ pc' = "translate"
    /\ UNCHANGED <<root, fs, projects, pi, fi, dependencies, methods,
                   dependency_map, localhost_map, domain_count, ti,
                   dot_projects, dot_all>>

\* One iteration of `for project, dependencies in dependency_map.items()`
TranslateProject ==
    /\ pc = "translate"
    /\ ti <= Len(projects)
    /\ dependency_map' =
          [dependency_map EXCEPT ![projects[ti].name] =
              TranslateAll(@, localhost_map)]
    /\ ti' = ti + 1
    /\ UNCHANGED <<root, fs, pc, projects, pi, fi, dependencies, methods,
                   method_usage_map, localhost_map, domain_count,
                   dot_projects, dot_all>>

\* log_domain_references and the return to main
Return ==
    /\ pc = "translate"
    /\ ti > Len(projects)
    /\ pc' = "dot_projects"
    /\ UNCHANGED <<root, fs, projects, pi, fi, dependencies, methods,
                   dependency_map, method_usage_map, localhost_map,
                   domain_count, ti, dot_projects, dot_all>>

GenerateProjectsDiagram ==
    /\ pc = "dot_projects"
    /\ dot_projects' = generate_dot_file(ProjectNames, dependency_map,
                                         method_usage_map, FALSE)
    /\ pc' = "dot_all"
    /\ UNCHANGED <<root, fs, projects, pi, fi, dependencies, methods,
                   dependency_map, method_usage_map, localhost_map,
                   domain_count, ti, dot_all>>

GenerateAllDiagram ==
    /\ pc = "dot_all"
    /\ dot_all' = generate_dot_file(ProjectNames, dependency_map,
                                    method_usage_map, TRUE)
    /\ pc' = "done"
    /\ UNCHANGED <<root, fs, projects, pi, fi, dependencies, methods,
                   dependency_map, method_usage_map, localhost_map,
                   domain_count, ti, dot_projects>>

Next ==
    \/ AnalyzeProjects
    \/ ProcessFile
    \/ EndProject
    \/ Deduplicate
    \/ TranslateProject
    \/ Return
    \/ GenerateProjectsDiagram
    \/ GenerateAllDiagram

----------------------------------------------------------------------------
(* Inputs: the directory trees the runs start from *)

Str_A == <<"A">>

Str_B == <<"B">>

Str_repos == <<"repos">>

Url_localhost8080 == <<"http", ":", "/", "/", "localhost", ":", "8080", "/", "api">>

Url_localhost3000 == <<"http", ":", "/", "/", "localhost", ":", "3000", "/">>

Url_localhost == <<"http", ":", "/", "/", "localhost", "/", "x">>

Url_api == <<"https", ":", "/", "/", "api", ".", "example", ".", "com", "/", "x">>

Url_cdn == <<"https", ":", "/", "/", "cdn", ".", "example", ".", "com", "/", "y">>

Url_api8443 ==
    <<"https", ":", "/", "/", "api", ".", "example", ".", "com", ":", "8443", "/", "x">>

Url_npm ==
    <<"https", ":", "/", "/", "registry", ".", "npmjs", ".", "org", "/", "pkg">>

Url_x == <<"http", ":", "/", "/", "x">>

Str_escaped_x == <<"http", "\\", ":", "/", "/", "x">>

Str_util == <<".", "/", "util">>

Frag(kind, val) == [kind |-> kind, val |-> val]

File(sub, base, readable, content) ==
    [sub |-> sub, base |-> base, readable |-> readable, content |-> content]

\* Lists of at most MaxFiles files with distinct paths, in os.walk order
\* (top-down: the files of a directory before those of its subdirectories)
FileLists(Kinds) ==
    {fl \in UNION {[1..k -> Kinds] : k \in 0..MaxFiles} :
        \A i \in 1..Len(fl), j \in 1..Len(fl) :
            i < j => /\ <<fl[i].sub, fl[i].base>> # <<fl[j].sub, fl[j].base>>
                     /\ Len(fl[i].sub) <= Len(fl[j].sub)}

\* The orders os.listdir can list the non-empty sets of directories in
NameOrders(Names) ==
    {ns \in UNION {[1..k -> Names] : k \in 1..Cardinality(Names)} :
        \A i \in 1..Len(ns), j \in 1..Len(ns) : i # j => ns[i] # ns[j]}

Trees(Names, Kinds) ==
    UNION {{[i \in 1..Len(ns) |-> [name |-> ns[i], files |-> fls[i]]] :
              fls \in [1..Len(ns) -> FileLists(Kinds)]} :
           ns \in NameOrders(Names)}

InitWith(Roots, Names, Kinds) ==
    /\ root \in Roots
    /\ fs \in Trees(Names, Kinds)
    /\ pc = "analyze"
    /\ projects = <<>>
    /\ pi = 1
    /\ fi = 1
    /\ dependencies = <<>>
    /\ methods = EmptyDict
    /\ dependency_map = EmptyDict
    /\ method_usage_map = EmptyDict
    /\ localhost_map = EmptyDict
    /\ domain_count = EmptyDict
    /\ ti = 1
    /\ dot_projects = NoGraph
    /\ dot_all = NoGraph

\* Projects that declare and reference localhost ports
LocalhostFiles ==
    {File(<<>>, <<"server", ".", "js">>, TRUE,
          <<Frag("text", <<"localhost", ":", "8080">>)>>),
     File(<<>>, <<"client", ".", "js">>, TRUE,
          <<Frag("text", Url_localhost8080)>>),
     File(<<>>, <<"admin", ".", "vue">>, TRUE,
          <<Frag("import", Url_localhost3000)>>),
     File(<<>>, <<"lib", ".", "js">>, TRUE,
          <<Frag("import", Str_util), Frag("text", Url_localhost)>>)}

InitLocalhost == InitWith({<<Str_repos>>}, {Str_A, Str_B}, LocalhostFiles)

SpecLocalhost == InitLocalhost /\ [][Next]_vars

\* Projects with registry, external and localhost URLs; one project
\* directory is itself named npmjs.org
DomainFiles ==
    {File(<<>>, <<"deps", ".", "js">>, TRUE,
          <<Frag("import", Url_npm), Frag("import", Str_util)>>),
     File(<<>>, <<"api", ".", "js">>, TRUE,
          <<Frag("text", Url_api)>>),
     File(<<>>, <<"cdn", ".", "vue">>, TRUE,
          <<Frag("text", Url_cdn), Frag("text", Url_api8443)>>),
     File(<<>>, <<"local", ".", "js">>, TRUE,
          <<Frag("text", Url_localhost8080)>>)}

InitDomains == InitWith({<<Str_repos>>}, {Str_A, NpmjsOrg}, DomainFiles)

SpecDomains == InitDomains /\ [][Next]_vars

----------------------------------------------------------------------------
\* Projects whose files define and use methods, at several depths below
\* the project directory
MethodFiles ==
    {File(<<>>, <<"util", ".", "js">>, TRUE,
          <<Frag("func", <<"init">>), Frag("func", <<"init">>)>>),
     File(<<<<"src">>>>, <<"util", ".", "js">>, TRUE,
          <<Frag("func", <<"init">>)>>),
     File(<<<<"src">>>>, <<"c", ".", "js">>, TRUE,
          <<Frag("func", <<"a", "_", "b">>)>>),
     File(<<<<"src">>, <<"lib">>>>, <<"b", "_", "c", ".", "js">>, TRUE,
          <<Frag("func", <<"a">>)>>),
     File(<<<<"src">>>>, <<"main", ".", "vue">>, TRUE,
          <<Frag("text", <<"init">>)>>)}

InitMethods == InitWith({<<Str_repos>>}, {Str_A, Str_B}, MethodFiles)

SpecMethods == InitMethods /\ [][Next]_vars

\* Projects in which the same URL comes from several files and in an
\* escaped spelling
GraphFiles ==
    {File(<<>>, <<"a", ".", "js">>, TRUE, <<Frag("text", Url_x)>>),
     File(<<>>, <<"b", ".", "js">>, TRUE, <<Frag("text", Url_x)>>),
     File(<<>>, <<"c", ".", "js">>, TRUE,
          <<Frag("import", Str_escaped_x)>>),
     File(<<<<"src">>>>, <<"d", ".", "js">>, TRUE,
          <<Frag("func", <<"init">>),
            Frag("import", <<"method", "_", "init", "_", "d", ".", "js">>)>>)}

InitGraph == InitWith({<<Str_repos>>}, {Str_A, Str_B}, GraphFiles)

SpecGraph == InitGraph /\ [][Next]_vars

\* Projects with files that cannot be read and files outside the
\* extraction allow-list
MixedFiles ==
    {File(<<>>, <<"server", ".", "vb">>, TRUE,
          <<Frag("text", <<"localhost", ":", "8080">>),
            Frag("func", <<"init">>)>>),
     File(<<>>, <<"client", ".", "js">>, FALSE,
          <<Frag("text", Url_localhost8080), Frag("func", <<"load">>)>>),
     File(<<>>, <<"data", ".", "json">>, TRUE,
          <<Frag("text", Url_localhost3000), Frag("func", <<"init">>)>>),
     File(<<>>, <<"app", ".", "vue">>, TRUE,
          <<Frag("import", Url_localhost3000), Frag("func", <<"load">>),
            Frag("text", <<"init">>)>>)}

InitFiles == InitWith({<<Str_repos>>}, {Str_A, Str_B}, MixedFiles)

SpecFiles == InitFiles /\ [][Next]_vars

Init == InitLocalhost \/ InitDomains \/ InitMethods \/ InitGraph \/ InitFiles

Spec == Init /\ [][Next]_vars

----------------------------------------------------------------------------
(* What the claims speak of *)

\* The texts the scan has read for project i: those of its supported files
\* that could be read, in file order
ReadContents(i) ==
    LET read == SelectSeq(projects[i].files,
                          LAMBDA f : IsSupported(f) /\ Open(f).readable)
    IN  [j \in 1..Len(read) |-> Open(read[j]).content]

\* The dependency list of every project as the scan leaves it, untranslated
ScannedDependencies ==
    SubSeq([i \in 1..Len(projects) |->
               LET rc == ReadContents(i)
               IN  Concat([j \in 1..Len(rc) |->
                       CollectDependencies(<<>>, EmptyDict,
                                           AllMatches(rc[j])).dependencies])],
           1, Len(projects))

\* The ports localhost:<port> found in the supported files of every project
DeclaredPorts ==
    SubSeq([i \in 1..Len(projects) |->
               LET rc == ReadContents(i)
               IN  UNION {Range(LocalhostFindall(rc[j])) : j \in 1..Len(rc)}],
           1, Len(projects))

\* The dependency contains localhost:port
ReferencesPort(dependency, port) ==
    Contains(dependency, <<"localhost", ":", port>>)

\* The translation loop is over
Translated == pc \in {"dot_projects", "dot_all", "done"}

\* C1: if project a declares localhost:P in a supported file and a different
\* project b has a dependency containing localhost:P (a declares the port
\* and does not reference it, b references it), then after the mapping b's
\* list holds a's name in place of that dependency, whatever the scan order;
\* a dependency whose port no project registered is left unchanged.
C1_LocalhostResolution ==
    Translated =>
        \A sd \in {ScannedDependencies}, dp \in {DeclaredPorts} :
        \A a \in 1..Len(projects), b \in 1..Len(projects), P \in DigitRuns :
            /\ (/\ a # b
                /\ P \in dp[a]
                /\ \A k \in 1..Len(sd[a]) : ~ReferencesPort(sd[a][k], P))
               => \A k \in 1..Len(sd[b]) :
                      ReferencesPort(sd[b][k], P)
                      => dependency_map[projects[b].name][k] = projects[a].name
            /\ (\A i \in 1..Len(projects) : P \notin dp[i])
               => \A k \in 1..Len(sd[b]) :
                      ReferencesPort(sd[b][k], P)
                      => dependency_map[projects[b].name][k] = sd[b][k]

\* The port the translation looks up for a dependency, if any
LookedUpPort(dependency) ==
    IF Contains(dependency, <<"localhost">>)
    THEN LocalhostFindallStr(dependency) ELSE <<>>

\* The last project in scan order among those that declare the port
LastDeclarer(dp, port) ==
    projects[Max({i \in 1..Len(projects) : port \in dp[i]})].name

\* C8: translation starts only after the files of every project have been
\* scanned for ports: while projects are scanned no list is translated,
\* when translation runs the port table names, for every port, the last
\* project in scan order with a supported file containing it, and every
\* translated localhost:P dependency is that project's name.
C8_TwoPassLastWriterWins ==
    \A sd \in {ScannedDependencies}, dp \in {DeclaredPorts} :
    /\ pc = "map" =>
          \A i \in 1..Len(projects) :
              projects[i].name \in DOMAIN dependency_map
              => dependency_map[projects[i].name] = sd[i]
    /\ pc \in {"translate", "dot_projects", "dot_all", "done"} =>
          /\ pi > Len(projects)
          /\ \A P \in DigitRuns :
                IF \E i \in 1..Len(projects) : P \in dp[i]
                THEN P \in DOMAIN localhost_map
                     /\ localhost_map[P] = LastDeclarer(dp, P)
                ELSE P \notin DOMAIN localhost_map
          /\ \A i \in 1..Len(projects) :
                (pc = "translate" => i < ti) =>
                \A k \in 1..Len(sd[i]) :
                    \A port \in {LookedUpPort(sd[i][k])} :
                        dependency_map[projects[i].name][k] =
                            IF port # <<>> THEN LastDeclarer(dp, port[1])
                            ELSE sd[i][k]

\* Two projects declare the same port and the earlier one's reference to it
\* has become the later one's name
C8_Witness ==
    /\ pc = "done"
    /\ \E sd \in {ScannedDependencies}, dp \in {DeclaredPorts} :
       \E a \in 1..Len(projects), b \in 1..Len(projects), P \in DigitRuns :
          /\ a < b
          /\ P \in dp[a]
          /\ P \in dp[b]
          /\ \E k \in 1..Len(sd[a]) :
                /\ ReferencesPort(sd[a][k], P)
                /\ dependency_map[projects[a].name][k] = projects[b].name

\* The string contains npmjs.org
ContainsNpmjs(str) == Contains(str, <<"npmjs", ".", "org">>)

\* C3 as stated: after the mapping no string of any resolved dependency
\* list contains npmjs.org, translated or not.
C3_NoiseFiltering ==
    Translated =>
        \A n \in DOMAIN dependency_map :
            \A k \in 1..Len(dependency_map[n]) :
                ~ContainsNpmjs(dependency_map[n][k])

\* C3 amended: no dependency kept as extracted contains npmjs.org, in the
\* list being built or in the dependency map; a string of a resolved list
\* that contains npmjs.org is the name of the project registered for the
\* port of the dependency it replaced.
C3_NoiseOnlyByTranslation ==
    /\ \A k \in 1..Len(dependencies) : ~ContainsNpmjs(dependencies[k])
    /\ \A sd \in {ScannedDependencies} :
       \A i \in 1..Len(projects) :
          projects[i].name \in DOMAIN dependency_map =>
          \A deps \in {dependency_map[projects[i].name]} :
          \A k \in 1..Len(deps) :
              ContainsNpmjs(deps[k]) =>
                  /\ Translated \/ (pc = "translate" /\ i < ti)
                  /\ ~ContainsNpmjs(sd[i][k])
                  /\ LookedUpPort(sd[i][k]) # <<>>
                  /\ deps[k] = localhost_map[LookedUpPort(sd[i][k])[1]]
                  /\ \E j \in 1..Len(projects) : deps[k] = projects[j].name

\* A project whose files hold an npmjs.org reference and another dependency:
\* the mapping is over and its list holds only the other one
C3_Witness ==
    /\ pc = "done"
    /\ \E i \in 1..Len(projects) :
          /\ \E j \in 1..Len(ReadContents(i)) :
                \E m \in Range(AllMatches(ReadContents(i)[j])) :
                    ContainsNpmjs(m)
          /\ dependency_map[projects[i].name] # <<>>
          /\ \A k \in 1..Len(dependency_map[projects[i].name]) :
                ~ContainsNpmjs(dependency_map[projects[i].name][k])

\* The dependency looks like a URL
IsUrl(dependency) ==
    \/ StartsWith(dependency, <<"http", ":", "/", "/">>)
    \/ StartsWith(dependency, <<"https", ":", "/", "/">>)

\* The host of a URL: what follows "//" up to the port, path or query
HostOf(url) ==
    LET body == SubSeq(url, 5, Len(url))
        stops == {i \in 1..Len(body) : body[i] \in {":", "/", "?", "#"}}
    IN  IF stops = {} THEN body ELSE SubSeq(body, 1, Min(stops) - 1)

\* The last two dot-separated labels of a host
LastTwoLabels(host) ==
    LET dots == {i \in 1..Len(host) : host[i] = "."}
    IN  IF Cardinality(dots) < 2 THEN host
        ELSE SubSeq(host, Max(dots \ {Max(dots)}) + 1, Len(host))

\* The scan of every project is over
Scanned == pc # "analyze" /\ pi > Len(projects)

\* C4: after the scan the domain counter's value for every root domain d is
\* the number of retained URL dependency occurrences, over all projects and
\* files, whose host's last two labels are d; nothing else is counted.
\* Stated for the root domains of two labels.
C4_DomainAggregation ==
    Scanned =>
        \A sd \in {ScannedDependencies} :
        \A urls \in {UNION {{<<i, k>> : k \in {k \in 1..Len(sd[i]) :
                                                  IsUrl(sd[i][k])}} :
                            i \in 1..Len(projects)}} :
        \A d \in {d \in DOMAIN domain_count \cup
                    {LastTwoLabels(HostOf(sd[ik[1]][ik[2]])) : ik \in urls} :
                  "." \in Range(d)} :
            CountOf(domain_count, d) =
                Cardinality({ik \in urls :
                    LastTwoLabels(HostOf(sd[ik[1]][ik[2]])) = d})

\* No two edges of the graph join the same ordered pair of nodes
OneEdgePerPair(graph) ==
    \A i \in 1..Len(graph.edges), j \in 1..Len(graph.edges) :
        i # j => \/ graph.edges[i].tail # graph.edges[j].tail
                 \/ graph.edges[i].head # graph.edges[j].head

\* C2: generate_dot_file emits at most one edge per ordered (source node,
\* target node) pair, regardless of label, also when a (project, dependency)
\* pair occurs several times in the project's list.
C2_EdgeDedup ==
    /\ pc \in {"dot_all", "done"} => OneEdgePerPair(dot_projects)
    /\ pc = "done" => OneEdgePerPair(dot_all)

\* C6: in the MethodUsageMap the mapping returns, every file path appears at
\* most once in the value of each method key.
C6_UsageDeduplicated ==
    pc \in {"translate", "dot_projects", "dot_all", "done"} =>
        \A key \in DOMAIN method_usage_map :
            \A files \in {method_usage_map[key]} :
            \A i \in 1..Len(files), j \in 1..Len(files) :
                i # j => files[i] # files[j]

\* The number of definitions in a file's text that give the method key
DefinitionCount(file, key) ==
    IF ~IsSupported(file) \/ ~Open(file).readable THEN 0
    ELSE Cardinality({j \in 1..Len(MethodFindall(Open(file).content)) :
            MethodKey(MethodFindall(Open(file).content)[j], file) = key})

\* A file that defines the same method twice, and so was recorded several
\* times for its key during the scan, is listed for that key
C6_Witness ==
    /\ pc = "done"
    /\ \E key \in DOMAIN method_usage_map :
          \E f \in Range(method_usage_map[key]) :
              DefinitionCount(f, key) >= 2

\* The project whose file list contains the file
OwnerOf(file) ==
    projects[CHOOSE i \in 1..Len(projects) :
                 file \in Range(projects[i].files)].name

Definitions ==
    UNION {UNION {{<<name, f>> :
                     name \in IF IsSupported(f) /\ Open(f).readable
                              THEN Range(MethodFindall(Open(f).content))
                              ELSE {}} :
                  f \in Range(projects[i].files)} :
           i \in 1..Len(projects)}

\* C10: a method key identifies exactly one (method name, defining file)
\* pair: two definitions that differ in name or in file never share a key
\* and are never merged into one MethodUsageMap entry.
C10_MethodKeyUniqueness ==
    Scanned =>
        \A defs \in {Definitions} :
        \A key \in DOMAIN method_usage_map :
            Cardinality({d \in defs : MethodKey(d[1], d[2]) = key}) <= 1

\* The file loop of one project run over a list of files
RECURSIVE ScanFiles(_, _, _)
ScanFiles(st, name, files) ==
    IF files = <<>> THEN st
    ELSE ScanFiles(ScanFile(st, name, Head(files)), name, Tail(files))

\* The project loop run over a list of projects: what the scan leaves in
\* the dependency map, the usage map, the port table and the domain counter
RECURSIVE ScanProjects(_, _)
ScanProjects(g, projs) ==
    IF projs = <<>> THEN g
    ELSE ScanProjects(
           CHOOSE r \in
             {[dependency_map |->
                  [n \in DOMAIN g.dependency_map \cup {Head(projs).name} |->
                      IF n = Head(projs).name THEN st.dependencies
                      ELSE g.dependency_map[n]],
               method_usage_map |->
                  ExtendUsages(st.method_usage_map, st.methods),
               localhost_map |-> st.localhost_map,
               domain_count |-> st.domain_count] :
              st \in {ScanFiles(Accumulators(<<>>, EmptyDict,
                                             g.method_usage_map,
                                             g.localhost_map, g.domain_count),
                                Head(projs).name, Head(projs).files)}} : TRUE,
           Tail(projs))

NothingScanned ==
    [dependency_map |-> EmptyDict, method_usage_map |-> EmptyDict,
     localhost_map |-> EmptyDict, domain_count |-> EmptyDict]

\* What the scan has left when its last project is done
ScanResult ==
    [dependency_map |-> dependency_map, method_usage_map |-> method_usage_map,
     localhost_map |-> localhost_map, domain_count |-> domain_count]

\* The projects with only those of their files that satisfy Keep
KeepFiles(projs, Keep(_)) ==
    [i \in 1..Len(projs) |->
        [name |-> projs[i].name, files |-> SelectSeq(projs[i].files, Keep)]]

\* The extension of a file name: from its last dot on
Extension(base) ==
    LET dots == {i \in 1..Len(base) : base[i] = "."}
    IN  IF dots = {} THEN <<>> ELSE SubSeq(base, Max(dots), Len(base))

HasAllowedExtension(file) ==
    Extension(Basename(file)) \in {<<".", "vb">>, <<".", "vue">>, <<".", "js">>}

\* The scan is at the end of its project loop
ScanJustDone == pc = "map" /\ pi > Len(projects)

\* C5: a file whose extension is not .vb, .vue or .js contributes nothing:
\* dependencies, port table, domain counter and method usages are what the
\* scan of the projects without those files leaves.
C5_AllowList ==
    ScanJustDone =>
        ScanResult =
            ScanProjects(NothingScanned,
                         KeepFiles(projects, HasAllowedExtension))

\* The text of the file holds something the scan would extract
HasMatches(file) ==
    \/ AllMatches(Open(file).content) # <<>>
    \/ LocalhostFindall(Open(file).content) # <<>>
    \/ MethodFindall(Open(file).content) # <<>>

\* The scan is over for a project that lists a file outside the allow-list,
\* with text the patterns match, before a file that was scanned
C5_Witness ==
    /\ ScanJustDone
    /\ \E i \in 1..Len(projects) :
          \E a \in 1..Len(projects[i].files),
             b \in 1..Len(projects[i].files) :
              /\ a < b
              /\ ~HasAllowedExtension(projects[i].files[a])
              /\ HasMatches(projects[i].files[a])
              /\ HasAllowedExtension(projects[i].files[b])
              /\ Open(projects[i].files[b]).readable
              /\ dependency_map[projects[i].name] # <<>>

\* Opening or reading the file fails
FailsToRead(file) == IsSupported(file) /\ ~Open(file).readable

CanBeRead(file) == ~FailsToRead(file)

\* C7: a file whose open or read fails contributes nothing and the run goes
\* on: dependencies, port table, domain counter and method usages are what
\* the scan of the projects without the failing files leaves.
C7_ReadFailureIsolated ==
    ScanJustDone =>
        ScanResult =
            ScanProjects(NothingScanned, KeepFiles(projects, CanBeRead))

\* The scan is over for a project in which a file that failed to read, with
\* text the patterns match, comes before a file that was scanned
C7_Witness ==
    /\ ScanJustDone
    /\ \E i \in 1..Len(projects) :
          \E a \in 1..Len(projects[i].files),
             b \in 1..Len(projects[i].files) :
              /\ a < b
              /\ FailsToRead(projects[i].files[a])
              /\ HasMatches(projects[i].files[a])
              /\ IsSupported(projects[i].files[b])
              /\ Open(projects[i].files[b]).readable
              /\ dependency_map[projects[i].name] # <<>>

\* The (method name, file) pairs that give the method key
DefinedAs(defs, key) == {d \in defs : MethodKey(d[1], d[2]) = key}

ReverseSeq(s) == [i \in 1..Len(s) |-> s[Len(s) + 1 - i]]

\* The projects with the files of each in the opposite order
FilesReversed(projs) ==
    [i \in 1..Len(projs) |->
        [name |-> projs[i].name, files |-> ReverseSeq(projs[i].files)]]

\* The files recorded for every method key, order and repetition aside
UsageSets(mum) == [k \in DOMAIN mum |-> Range(mum[k])]

\* C11: usage detection is per file: a file is recorded in the entry of a
\* method key only if it defines that method, and the files recorded for
\* each key are the same when the files of every project are scanned in
\* another order.
C11_UsagePerFile ==
    Scanned =>
        /\ \A defs \in {Definitions} :
           \A key \in DOMAIN method_usage_map :
               \A f \in Range(method_usage_map[key]) :
                   \E d \in DefinedAs(defs, key) : d[2] = f
        /\ UsageSets(method_usage_map) =
               UsageSets(ScanProjects(NothingScanned,
                                      FilesReversed(projects)).method_usage_map)

\* The ports of the localhost:<port> occurrences in a dependency
PortsOf(dependency) == Range(LocalhostFindallStr(dependency))

\* C12: a project that has a dependency containing localhost:P has itself
\* registered port P: while its files are scanned the port table gives its
\* name for the port of every dependency collected so far; so the lookup of
\* the translation never misses: after the mapping every dependency that
\* matched localhost:<port> is a project name, every other dependency is
\* unchanged at its position, and each list has kept its length.
C12_LookupNeverMisses ==
    /\ (pc = "map" /\ pi <= Len(projects)) =>
          \A k \in 1..Len(dependencies) :
              \A P \in PortsOf(dependencies[k]) :
                  /\ P \in DOMAIN localhost_map
                  /\ localhost_map[P] = projects[pi].name
    /\ Translated =>
          \A sd \in {ScannedDependencies}, dp \in {DeclaredPorts} :
          \A i \in 1..Len(projects) :
              \A resolved \in {dependency_map[projects[i].name]} :
                  /\ Len(resolved) = Len(sd[i])
                  /\ \A k \in 1..Len(sd[i]) :
                        IF PortsOf(sd[i][k]) # {}
                        THEN /\ PortsOf(sd[i][k]) \subseteq dp[i]
                             /\ PortsOf(sd[i][k]) \subseteq DOMAIN localhost_map
                             /\ resolved[k] \in Range(ProjectNames)
                        ELSE resolved[k] = sd[i][k]

\* A list in which a dependency with a port has become a project name, next
\* to one without a port that mentions localhost and one that does not
C12_Witness ==
    /\ pc = "done"
    /\ \E sd \in {ScannedDependencies} :
       \E i \in 1..Len(projects) :
          \E a \in 1..Len(sd[i]), b \in 1..Len(sd[i]), c \in 1..Len(sd[i]) :
              /\ PortsOf(sd[i][a]) # {}
              /\ dependency_map[projects[i].name][a] \in Range(ProjectNames)
              /\ PortsOf(sd[i][b]) = {}
              /\ Contains(sd[i][b], <<"localhost">>)
              /\ dependency_map[projects[i].name][b] = sd[i][b]
              /\ ~Contains(sd[i][c], <<"localhost">>)
              /\ dependency_map[projects[i].name][c] = sd[i][c]

====
